---- MODULE Spec2Model ----
(***************************************************************************)
(* A model of kong/client.py: one resource client (a RestClient subclass)  *)
(* with its lazily opened session, the throttling adapter mounted on it,   *)
(* the create / create_or_update / update / list / retrieve / count /      *)
(* delete methods, the backoff decorator around delete, and the admin      *)
(* backend the client talks to.                                            *)
(***************************************************************************)
EXTENDS Integers, Sequences, FiniteSets, TLC

\* ------------------------------------------------------------------ bounds
MaxTime == 2        \* the clock is advanced by Tick / transport up to here
MaxFields == 1      \* size of the **fields / **filter_fields a call passes
MaxIds == 1         \* identifiers known to callers and backend: 1..MaxIds

\* --------------------------------------------------------------- constants
OK == 200
CREATED == 201
NO_CONTENT == 204
NOT_FOUND == 404
CONFLICT == 409
max_tries == 3

NoTime == -1        \* None for a timestamp
NoId == 0           \* None for an identifier argument

\* The statuses the methods tell apart, and 500 for every other one.
Statuses == {OK, CREATED, NO_CONTENT, NOT_FOUND, CONFLICT, 500}
Intervals == {0, 2, 3} \* values of KONG_MINIMUM_REQUEST_INTERVAL explored
Durations == {0, 1} \* time one transport round trip may take
Ids == 1..MaxIds

Resources ==
  {"apis", "plugin_conf", "basicauth", "keyauth", "oauth2", "consumers", "plugins"}

Ops ==
  {"create", "create_or_update", "update", "list", "retrieve", "count", "delete",
   "retrieve_schema"}

\* The methods each client class defines.
Supports(r, o) ==
  CASE r = "plugins" -> o \in {"list", "retrieve_schema"}
    [] r = "plugin_conf" ->
         o \in {"create", "create_or_update", "update", "list", "delete", "count"}
    [] OTHER ->
         o \in {"create", "create_or_update", "update", "list", "retrieve", "count",
                "delete"}

\* ---------------------------------------------------------------- fields
\* The keyword names callers pass: some of every whitelist, names that are
\* on one whitelist of a client and not on its other, and one on none.
Keys ==
  {"id", "name", "username", "key", "custom_id", "redirect_url", "redirect_uri",
   "bogus"}

RECURSIVE SetsUpTo(_)
SetsUpTo(n) ==
  IF n = 0 THEN {{}}
  ELSE LET S == SetsUpTo(n - 1) IN S \cup {s \cup {k} : s \in S, k \in Keys}

FieldSets == SetsUpTo(MaxFields)

\* The second argument of each assert_dict_keys_in call.
Whitelist(r, o) ==
  CASE r = "plugin_conf" /\ o = "list" -> {"id", "name", "api_id", "consumer_id"}
    [] r = "apis" /\ o = "update" ->
         {"name", "public_dns", "path", "strip_path", "preserve_host"}
    [] r = "apis" /\ o = "list" -> {"id", "name", "public_dns", "path"}
    [] r = "basicauth" /\ o = "list" -> {"id", "username"}
    [] r = "basicauth" /\ o = "update" -> {"username", "password"}
    [] r = "keyauth" /\ o = "list" -> {"id", "key"}
    [] r = "keyauth" /\ o = "update" -> {"key"}
    [] r = "oauth2" /\ o = "list" -> {"id", "name", "redirect_url", "client_id"}
    [] r = "oauth2" /\ o = "update" ->
         {"name", "redirect_uri", "client_id", "client_secret"}
    [] r = "consumers" /\ o = "update" -> {"username", "custom_id"}
    [] r = "consumers" /\ o = "list" -> {"id", "custom_id", "username"}
    [] OTHER -> {}

\* Validates, had KeyAuthAdminClient.update lost its assertion.
ValidatesNoKeyAuthUpdate(r, o) ==
  /\ r # "plugins"
  /\ o \in {"list", "update"}
  /\ ~(r = "plugin_conf" /\ o = "update")
  /\ ~(r = "keyauth" /\ o = "update")

\* The methods whose body starts with assert_dict_keys_in(...): every list
\* and update with **kwargs, except APIPluginConfigurationAdminClient.update.
Validates(r, o) ==
  /\ r # "plugins"
  /\ o \in {"list", "update"}
  /\ ~(r = "plugin_conf" /\ o = "update")

\* utils.assert_dict_keys_in(d, allowed): every key of d is an allowed one.
assert_dict_keys_in(d, allowed) == d \subseteq allowed

\* The methods that take **fields / **filter_fields at all.
TakesFields(r, o) ==
  \/ (r # "plugins" /\ o \in {"list", "update"})
  \/ (r = "plugin_conf" /\ o \in {"create", "create_or_update"})

FieldArgs(r, o) == IF TakesFields(r, o) THEN FieldSets ELSE {{}}

\* The identifier argument: the unique field of create, the optional id of
\* create_or_update, the name_or_id of update / retrieve / delete.
IdArgs(o) ==
  CASE o \in {"create", "update", "retrieve", "delete", "retrieve_schema"} -> Ids
    [] o = "create_or_update" -> {NoId} \cup Ids
    [] OTHER -> {NoId}

\* A key of a request body or query string: <<prefix, name>>.
Plain(k) == <<"", k>>
Value(k) == <<"value.", k>>

CreateKeys(r) ==
  CASE r = "apis" ->
         {"name", "public_dns", "path", "strip_path", "preserve_host", "target_url"}
    [] r = "plugin_conf" -> {"name", "consumer_id"}
    [] r = "basicauth" -> {"username", "password"}
    [] r = "keyauth" -> {"key"}
    [] r = "oauth2" -> {"name", "redirect_uri", "client_id", "client_secret"}
    [] r = "consumers" -> {"username", "custom_id"}
    [] OTHER -> {}

\* values['value.%s' % key] = fields[key] (plugin configurations only).
Flatten(r, f) ==
  IF r = "plugin_conf" THEN {Value(k) : k \in f} ELSE {Plain(k) : k \in f}

\* IdKey, had the None test been left out.
IdKeyAlways(i) == {Plain("id")}

\* if <id argument> is not None: data['id'] = <id argument>
IdKey(i) == IF i # NoId THEN {Plain("id")} ELSE {}

\* The keys of the data= / query parameters each method sends.
Data(r, o, i, f) ==
  CASE o = "create" -> {Plain(k) : k \in CreateKeys(r)} \cup Flatten(r, f)
    [] o = "create_or_update" ->
         {Plain(k) : k \in CreateKeys(r)} \cup Flatten(r, f)
           \cup IdKey(i)
    [] o = "update" ->
         (CASE r = "apis" -> {Plain("target_url")}
            [] r = "plugin_conf" -> {Plain("name")}
            [] OTHER -> {}) \cup Flatten(r, f)
    [] o = "list" ->
         IF r = "plugins" THEN {} ELSE {Plain(k) : k \in f} \cup {Plain("size")}
    [] OTHER -> {}

\* ------------------------------------------------------------- responses
\* The shape of a response body: not JSON at all, a JSON object without
\* 'total' and 'data' (a record or an error payload), or a list page with
\* either or both of 'total' and 'data'.
Bodies == {"not_json", "object", "page", "total_only", "data_only"}

Parses(b) == b # "not_json"
HasTotal(b) == b \in {"page", "total_only"}
HasData(b) == b \in {"page", "data_only"}

BodiesFor(o) == IF o = "count" THEN Bodies ELSE {"not_json", "object"}

Returned(kind) == [exc |-> "none", msg |-> "none", result |-> kind]
Raised(e, m) == [exc |-> e, msg |-> m, result |-> "none"]

\* Exception classes a handler of ValueError catches.
ValueErrors == {"ValueError", "JSONDecodeError"}

\* raise_response_error(response, exception_class, is_json)
raise_response_error(b, exception_class, is_json) ==
  IF is_json
    THEN IF Parses(b) THEN Raised(exception_class, "flattened")
         ELSE Raised("JSONDecodeError", "parse_error")
    ELSE Raised(exception_class, "str_response")

\* CreateResult, had it taken OK for a creation as create_or_update does.
CreateResultOkToo(s, b) ==
  IF ~Parses(b) THEN Raised("JSONDecodeError", "parse_error")
  ELSE IF s = CONFLICT THEN raise_response_error(b, "ConflictError", TRUE)
  ELSE IF s \notin {CREATED, OK} THEN raise_response_error(b, "ValueError", TRUE)
  ELSE Returned("record")

\* create / add: result = response.json(); CONFLICT; != CREATED; return.
CreateResult(s, b) ==
  IF ~Parses(b) THEN Raised("JSONDecodeError", "parse_error")
  ELSE IF s = CONFLICT THEN raise_response_error(b, "ConflictError", TRUE)
  ELSE IF s # CREATED THEN raise_response_error(b, "ValueError", TRUE)
  ELSE Returned("record")

\* CreateOrUpdateResult without the CONFLICT branch.
CreateOrUpdateResultNoConflict(s, b) ==
  IF ~Parses(b) THEN Raised("JSONDecodeError", "parse_error")
  ELSE IF s \notin {CREATED, OK} THEN raise_response_error(b, "ValueError", TRUE)
  ELSE Returned("record")

\* create_or_update / add_or_update
CreateOrUpdateResult(s, b) ==
  IF ~Parses(b) THEN Raised("JSONDecodeError", "parse_error")
  ELSE IF s = CONFLICT THEN raise_response_error(b, "ConflictError", TRUE)
  ELSE IF s \notin {CREATED, OK} THEN raise_response_error(b, "ValueError", TRUE)
  ELSE Returned("record")

\* update, list
UpdateResult(s, b) ==
  IF ~Parses(b) THEN Raised("JSONDecodeError", "parse_error")
  ELSE IF s # OK THEN raise_response_error(b, "ValueError", TRUE)
  ELSE Returned("record")

\* RetrieveResult, had it taken NOT_FOUND as delete does.
RetrieveResultNotFoundOk(s, b) ==
  IF ~Parses(b) THEN Raised("JSONDecodeError", "parse_error")
  ELSE IF s \notin {OK, NOT_FOUND} THEN raise_response_error(b, "ValueError", TRUE)
  ELSE Returned("record")

\* retrieve, retrieve_schema
RetrieveResult(s, b) ==
  IF ~Parses(b) THEN Raised("JSONDecodeError", "parse_error")
  ELSE IF s # OK THEN raise_response_error(b, "ValueError", TRUE)
  ELSE Returned("record")

\* count: result.get('total', len(result.get('data'))); the default is
\* evaluated before get is called, and len(None) is a TypeError.
CountResult(s, b) ==
  IF ~Parses(b) THEN Raised("JSONDecodeError", "parse_error")
  ELSE IF ~HasData(b) THEN Raised("TypeError", "len_of_none")
  ELSE IF HasTotal(b) THEN Returned("total")
  ELSE Returned("len_data")

\* DeleteSucceeds without NOT_FOUND.
DeleteSucceedsOnlyNoContent(s) == s = NO_CONTENT

\* delete: status_code in (NO_CONTENT, NOT_FOUND)
DeleteSucceeds(s) == s \in {NO_CONTENT, NOT_FOUND}

\* delete: the body is not read.
DeleteResult(s, b) ==
  IF DeleteSucceeds(s) THEN Returned("nothing")
  ELSE Raised("ValueError", "could_not_delete")

\* What one run of the method body ends with, given the response it got.
MethodResult(o, s, b) ==
  CASE o = "create" -> CreateResult(s, b)
    [] o = "create_or_update" -> CreateOrUpdateResult(s, b)
    [] o \in {"update", "list"} -> UpdateResult(s, b)
    [] o \in {"retrieve", "retrieve_schema"} -> RetrieveResult(s, b)
    [] o = "count" -> CountResult(s, b)
    [] OTHER -> DeleteResult(s, b)

\* @backoff.on_exception(backoff.expo, ValueError, max_tries=3) on delete.
Decorated(o) == o = "delete"

\* GiveUp, off by one.
GiveUpOneLate(tries) == tries > max_tries

\* backoff: max_tries_exceeded = (tries == max_tries)
GiveUp(tries) == tries >= max_tries

\* ---------------------------------------------------------------- backend
\* The admin backend's collection behind this client, per identifier:
\* never there, inserted by POST, inserted or replaced by PUT, or deleted.
StoreStates == {"absent", "created", "upserted", "deleted"}
Present(x) == x \in {"created", "upserted"}

\* The status the backend's documented semantics give the request.
BackendStatus(o, i, st) ==
  CASE o = "create" -> IF Present(st[i]) THEN CONFLICT ELSE CREATED
    [] o = "create_or_update" ->
         IF i # NoId /\ Present(st[i]) THEN OK ELSE CREATED
    [] o \in {"update", "retrieve"} -> IF Present(st[i]) THEN OK ELSE NOT_FOUND
    [] o = "delete" -> IF Present(st[i]) THEN NO_CONTENT ELSE NOT_FOUND
    [] OTHER -> OK

\* A list page for count, no body with 204, a JSON object otherwise.
BackendBody(o, s) ==
  IF o = "count" THEN "page" ELSE IF s = NO_CONTENT THEN "not_json" ELSE "object"

BackendApply(o, i, st) ==
  CASE o = "create" /\ ~Present(st[i]) -> [st EXCEPT ![i] = "created"]
    [] o = "create_or_update" /\ i # NoId -> [st EXCEPT ![i] = "upserted"]
    [] o = "delete" /\ Present(st[i]) -> [st EXCEPT ![i] = "deleted"]
    [] OTHER -> st

\* ------------------------------------------------------------------ state
VARIABLES
  res,           \* which client class this instance is
  interval,      \* KONG_MINIMUM_REQUEST_INTERVAL
  reuse,         \* KONG_REUSE_CONNECTIONS
  now,           \* time.time()
  session,       \* RestClient._session: "none" or "open"
  sessionUsed,   \* whether the held session has served a request
  unclosed,      \* sessions created and not closed
  last_request,  \* ThrottlingHTTPAdapter._last_request of the held session
  sendStart,     \* when the latest send on the held session's adapter began
  store,         \* the backend's collection
  pc,            \* "idle", "send", "wait", "backoff", "done"
  op, idArg, fields, data, \* the call in progress and its request's keys
  pre,           \* the backend's state of idArg when the call began
  nreq,          \* requests this call has issued
  nfail,         \* runs of the method body that raised a ValueError
  status, body,  \* the latest response
  exc, msg, result, \* how the call ended
  faithful,      \* every response of this call followed the backend's semantics
  fresh,         \* the session of the latest send had served no request before
  sleptFor,      \* what the throttle slept before the latest send
  prevStart, prevEnd, \* start and completion of the send before the latest one
  held,          \* a session was held when the latest send read the property
  created,       \* the latest read of the property created a session
  closedOld,     \* the latest read of the property closed the held session
  peak,          \* most sessions unclosed at once during the latest read
  elapsed        \* time since the client's previous response, at the latest send

callVars ==
  <<op, idArg, fields, data, pre, nreq, nfail, status, body, exc, msg, result,
    faithful, fresh, sleptFor, prevStart, prevEnd, held, created, closedOld,
    peak, elapsed>>

vars ==
  <<res, interval, reuse, now, session, sessionUsed, unclosed, last_request,
    sendStart, store, pc, callVars>>

NoCall ==
  /\ op = "none" /\ idArg = NoId /\ fields = {} /\ data = {} /\ pre = "n/a"
  /\ nreq = 0 /\ nfail = 0 /\ status = 0 /\ body = "none"
  /\ exc = "none" /\ msg = "none" /\ result = "none"
  /\ faithful = TRUE /\ fresh = FALSE /\ sleptFor = 0
  /\ prevStart = NoTime /\ prevEnd = NoTime
  /\ held = FALSE /\ created = FALSE /\ closedOld = FALSE /\ peak = 0
  /\ elapsed = NoTime

Init ==
  /\ res \in Resources
  /\ interval \in Intervals
  /\ reuse \in BOOLEAN
  /\ now = 0
  /\ session = "none" /\ sessionUsed = FALSE /\ unclosed = 0
  /\ last_request = NoTime /\ sendStart = NoTime
  /\ store = [i \in Ids |-> "absent"]
  /\ pc = "idle"
  /\ NoCall

\* ---------------------------------------------------------------- actions
\* A caller invokes a method: the whitelist assertion, when the method has
\* one, runs first; the request's keys are then built.
Call ==
  /\ pc = "idle"
  /\ \E o \in Ops, i \in {NoId} \cup Ids, f \in FieldSets :
       /\ Supports(res, o)
       /\ i \in IdArgs(o)
       /\ f \in FieldArgs(res, o)
       /\ op' = o /\ idArg' = i /\ fields' = f
       /\ pre' = IF i = NoId THEN "n/a" ELSE store[i]
       /\ IF Validates(res, o) /\ ~assert_dict_keys_in(f, Whitelist(res, o))
            THEN /\ pc' = "done"
                 /\ exc' = "ValidationError" /\ msg' = "key_not_allowed"
                 /\ data' = {}
            ELSE /\ pc' = "send"
                 /\ exc' = "none" /\ msg' = "none"
                 /\ data' = Data(res, o, i, f)
  /\ UNCHANGED <<res, interval, reuse, now, session, sessionUsed, unclosed,
                 last_request, sendStart, store, nreq, nfail, status, body,
                 result, faithful, fresh, sleptFor, prevStart, prevEnd, held,
                 created, closedOld, peak, elapsed>>

Max(a, b) == IF a >= b THEN a ELSE b

\* SessionProperty, had the held session been dropped without close().
SessionPropertyNoClose ==
  IF session = "none"
    THEN [unclosed |-> unclosed + 1, last |-> NoTime, start |-> NoTime,
          fresh |-> TRUE, held |-> FALSE, created |-> TRUE, closedOld |-> FALSE,
          peak |-> unclosed + 1]
  ELSE IF ~reuse
    THEN [unclosed |-> unclosed + 1, last |-> NoTime, start |-> NoTime,
          fresh |-> TRUE, held |-> TRUE, created |-> TRUE, closedOld |-> FALSE,
          peak |-> unclosed + 1]
  ELSE [unclosed |-> unclosed, last |-> last_request, start |-> sendStart,
        fresh |-> ~sessionUsed, held |-> TRUE, created |-> FALSE,
        closedOld |-> FALSE, peak |-> unclosed]

\* SessionProperty, had the reuse flag been ignored once a session is held.
SessionPropertyAlwaysReuse ==
  IF session = "none"
    THEN [unclosed |-> unclosed + 1, last |-> NoTime, start |-> NoTime,
          fresh |-> TRUE, held |-> FALSE, created |-> TRUE, closedOld |-> FALSE,
          peak |-> unclosed + 1]
  ELSE [unclosed |-> unclosed, last |-> last_request, start |-> sendStart,
        fresh |-> ~sessionUsed, held |-> TRUE, created |-> FALSE,
        closedOld |-> FALSE, peak |-> unclosed]

\* RestClient.session: what the property leaves behind and hands out. With
\* no session held it creates one (and mounts a new adapter, its
\* _last_request None); with one held and reuse off it closes that one,
\* forgets it and reads the property again, which creates the next; else it
\* hands out the held one.
SessionProperty ==
  IF session = "none"
    THEN [unclosed |-> unclosed + 1, last |-> NoTime, start |-> NoTime,
          fresh |-> TRUE, held |-> FALSE, created |-> TRUE, closedOld |-> FALSE,
          peak |-> unclosed + 1]
  ELSE IF ~reuse
    THEN [unclosed |-> (unclosed - 1) + 1, last |-> NoTime, start |-> NoTime,
          fresh |-> TRUE, held |-> TRUE, created |-> TRUE, closedOld |-> TRUE,
          peak |-> Max(unclosed, (unclosed - 1) + 1)]
  ELSE [unclosed |-> unclosed, last |-> last_request, start |-> sendStart,
        fresh |-> ~sessionUsed, held |-> TRUE, created |-> FALSE,
        closedOld |-> FALSE, peak |-> unclosed]

\* ThrottleSleep, had it slept the whole interval.
ThrottleSleepWholeInterval(last, t) ==
  IF last # NoTime /\ interval > 0
    THEN LET diff == t - last
         IN IF 0 < diff /\ diff < interval THEN interval ELSE 0
    ELSE 0

\* ThrottlingHTTPAdapter.send, before the transport: the argument of sleep.
ThrottleSleep(last, t) ==
  IF last # NoTime /\ interval > 0
    THEN LET diff == t - last
         IN IF 0 < diff /\ diff < interval THEN diff ELSE 0
    ELSE 0

\* self.session.<method>(...): the session property, then the adapter's
\* throttle, then the request leaves.
Send ==
  /\ pc = "send"
  /\ LET s == SessionProperty
         z == ThrottleSleep(s.last, now)
     IN /\ session' = "open"
        /\ unclosed' = s.unclosed
        /\ sessionUsed' = TRUE
        /\ fresh' = s.fresh
        /\ held' = s.held /\ created' = s.created /\ closedOld' = s.closedOld
        /\ peak' = s.peak
        /\ elapsed' = IF last_request # NoTime THEN now - last_request ELSE NoTime
        /\ last_request' = s.last
        /\ prevStart' = s.start
        /\ prevEnd' = s.last
        /\ sleptFor' = z
        /\ now' = now + z
        /\ sendStart' = now + z
  /\ pc' = "wait"
  /\ UNCHANGED <<res, interval, reuse, store, op, idArg, fields, data, pre, nreq,
                 nfail, status, body, exc, msg, result, faithful>>

\* The response arrives (the adapter stamps _last_request), the method body
\* classifies it, and the backoff decorator either retries or lets go.
Respond ==
  /\ pc = "wait"
  /\ \E d \in {x \in Durations : x = 0 \/ now + x <= MaxTime},
        s \in Statuses, b \in BodiesFor(op) :
       LET r == MethodResult(op, s, b)
           retry == Decorated(op) /\ r.exc \in ValueErrors /\ ~GiveUp(nreq + 1)
       IN /\ now' = now + d
          /\ last_request' = IF interval > 0 THEN now + d ELSE last_request
          /\ status' = s /\ body' = b
          /\ nreq' = nreq + 1
          /\ nfail' = IF Decorated(op) /\ r.exc \in ValueErrors
                        THEN nfail + 1 ELSE nfail
          /\ faithful' = (faithful /\ s = BackendStatus(op, idArg, store)
                                   /\ b = BackendBody(op, s))
          /\ store' = IF s = BackendStatus(op, idArg, store)
                        THEN BackendApply(op, idArg, store) ELSE store
          /\ IF retry
               THEN /\ pc' = "backoff"
                    /\ exc' = "none" /\ msg' = "none" /\ result' = "none"
               ELSE /\ pc' = "done"
                    /\ exc' = r.exc /\ msg' = r.msg /\ result' = r.result
  /\ UNCHANGED <<res, interval, reuse, session, sessionUsed, unclosed, sendStart,
                 op, idArg, fields, data, pre, fresh, sleptFor, prevStart,
                 prevEnd, held, created, closedOld, peak, elapsed>>

\* backoff sleeps between tries, then runs the method body again.
Backoff ==
  /\ pc = "backoff"
  /\ \E w \in {x \in Durations : x = 0 \/ now + x <= MaxTime} : now' = now + w
  /\ pc' = "send"
  /\ UNCHANGED <<res, interval, reuse, session, sessionUsed, unclosed,
                 last_request, sendStart, store, callVars>>

\* The call returns or raises to its caller.
Return ==
  /\ pc = "done"
  /\ pc' = "idle"
  /\ op' = "none" /\ idArg' = NoId /\ fields' = {} /\ data' = {} /\ pre' = "n/a"
  /\ nreq' = 0 /\ nfail' = 0 /\ status' = 0 /\ body' = "none"
  /\ exc' = "none" /\ msg' = "none" /\ result' = "none"
  /\ faithful' = TRUE /\ fresh' = FALSE /\ sleptFor' = 0
  /\ prevStart' = NoTime /\ prevEnd' = NoTime
  /\ held' = FALSE /\ created' = FALSE /\ closedOld' = FALSE /\ peak' = 0
  /\ elapsed' = NoTime
  /\ UNCHANGED <<res, interval, reuse, now, session, sessionUsed, unclosed,
                 last_request, sendStart, store>>

\* Time passes between calls.
Tick ==
  /\ pc = "idle"
  /\ now < MaxTime
  /\ now' = now + 1
  /\ UNCHANGED <<res, interval, reuse, session, sessionUsed, unclosed,
                 last_request, sendStart, store, pc, callVars>>

Next == Call \/ Send \/ Respond \/ Backoff \/ Return \/ Tick

Spec == Init /\ [][Next]_vars

Done == pc = "done"
Answered == pc = "done" /\ nreq >= 1
ParsedAnswer == Answered /\ Parses(body)

TypeOK ==
  /\ res \in Resources /\ interval \in Intervals /\ reuse \in BOOLEAN
  /\ pc \in {"idle", "send", "wait", "backoff", "done"}
  /\ nreq \in 0..max_tries /\ unclosed \in 0..1
\* ------------------------------------------------------------------ claims
\* C1: a delete call issues DELETE requests until the first 204 or 404 or
\* until 3 requests were issued; it returns normally exactly when the last
\* response was 204 or 404 (every earlier one was a failure), and otherwise
\* the ValueError of the third failed attempt reaches the caller. No delete
\* call issues more than 3 requests.
C1_DeleteBoundedRetry ==
  op = "delete" =>
    /\ nreq <= 3
    /\ pc \in {"backoff", "send"} /\ nreq > 0 =>
         status \notin {204, 404} /\ nreq < 3 /\ nfail = nreq
    /\ pc = "done" =>
         /\ exc = "none" <=> status \in {204, 404}
         /\ exc = "none" => nfail = nreq - 1
         /\ exc # "none" =>
              exc = "ValueError" /\ msg = "could_not_delete" /\ nreq = 3 /\ nfail = 3

\* Two generic failures, then 204 on the third attempt: the call succeeds.
C1_Witness ==
  pc = "done" /\ op = "delete" /\ nreq = 3 /\ nfail = 2 /\ status = 204
    /\ exc = "none"

\* C2: against a backend that answers DELETE with 204 for an identifier it
\* holds and 404 for one it does not, every delete call, the first and any
\* later one on the same identifier, returns normally after exactly one
\* request.
C2_DeleteIdempotent ==
  pc = "done" /\ op = "delete" /\ faithful =>
    /\ exc = "none" /\ nreq = 1 /\ nfail = 0
    /\ Present(pre) => status = 204
    /\ ~Present(pre) => status = 404

\* A delete of an identifier an earlier delete already removed.
C2_Witness ==
  pc = "done" /\ op = "delete" /\ faithful /\ pre = "deleted" /\ status = 404
    /\ exc = "none" /\ nreq = 1
\* The status contract of the resource pattern: the success statuses of
\* each operation.
SuccessOf(o) ==
  CASE o = "create" -> {201}
    [] o = "create_or_update" -> {200, 201}
    [] o = "delete" -> {204, 404}
    [] OTHER -> {200}

SixClients ==
  {"apis", "consumers", "plugin_conf", "basicauth", "keyauth", "oauth2"}

\* C3: create, create_or_update, update, list, count and retrieve are never
\* retried: whatever the status, a call issues exactly one request, and a
\* failure status ends the call with an error raised to the caller.
C3_NeverRetried ==
  op \in {"create", "create_or_update", "update", "list", "count", "retrieve"} =>
    /\ nreq <= 1
    /\ pc \in {"send", "backoff"} => nreq = 0
    /\ Answered => (status \notin SuccessOf(op) => exc # "none")

\* C3, the part about requests alone: no operation but delete ever sends a
\* second request.
C3_SingleRequest ==
  op # "delete" =>
    /\ nreq <= 1
    /\ pc \in {"send", "backoff"} => nreq = 0
    /\ Answered => nreq = 1

\* C4: with interval T > 0 and connection reuse, when the time e elapsed
\* since the previous request satisfies 0 < e < T the throttle sleeps for
\* T - e, so that a send following one that completed in less than T starts
\* at least T after that one started.
C4_ThrottleSpacing ==
  pc = "wait" /\ interval > 0 /\ reuse /\ prevEnd # NoTime =>
    LET e == (sendStart - sleptFor) - prevEnd
    IN 0 < e /\ e < interval =>
         /\ sleptFor = interval - e
         /\ prevEnd - prevStart < interval => sendStart - prevStart >= interval

\* C5 as stated: for each of the six resource clients, a list or update call
\* with a key outside the whitelist fails locally and issues no request; one
\* whose keys are all whitelisted sends exactly one request.
C5_WhitelistEverywhere ==
  pc = "done" /\ op \in {"list", "update"} /\ res \in SixClients =>
    IF fields \subseteq Whitelist(res, op)
      THEN exc # "ValidationError" /\ nreq = 1
      ELSE exc = "ValidationError" /\ nreq = 0

\* C5 as amended: the above holds for list of all six clients and for update
\* of APIs, Consumers, BasicAuth, KeyAuth and OAuth2; update of an API
\* plugin configuration validates nothing: whatever the extra fields, it
\* sends them under the value. prefix in exactly one request.
C5_WhitelistBeforeIO ==
  /\ exc = "ValidationError" => nreq = 0 /\ pc = "done" /\ status = 0
  /\ pc = "done" /\ op \in {"list", "update"} /\ res \in SixClients =>
       IF op = "update" /\ res = "plugin_conf"
         THEN /\ exc # "ValidationError" /\ nreq = 1
              /\ data = {Plain("name")} \cup {Value(k) : k \in fields}
         ELSE IF fields \subseteq Whitelist(res, op)
           THEN exc # "ValidationError" /\ nreq = 1
           ELSE exc = "ValidationError" /\ nreq = 0

\* An update of a consumer with a key outside the whitelist: refused locally.
C5_Witness ==
  pc = "done" /\ op = "update" /\ res = "consumers" /\ fields = {"bogus"}
    /\ exc = "ValidationError" /\ nreq = 0

\* C6: create returns the record only on 201, raises ConflictError only on
\* 409 and raises the generic failure (ValueError) on every other status,
\* 200 included; with a JSON object as body, 201 always returns the record
\* and 409 always raises ConflictError. Against a backend that answers POST
\* with 201 for a new unique field and 409 for an existing one, the first
\* create succeeds and the second raises ConflictError.
C6_CreateOnly201 ==
  Answered /\ op = "create" =>
    /\ nreq = 1
    /\ exc = "none" => status = 201 /\ result = "record"
    /\ exc = "ConflictError" => status = 409
    /\ status \notin {201, 409} => exc \in ValueErrors
    /\ Parses(body) =>
         /\ status = 201 => exc = "none"
         /\ status = 409 => exc = "ConflictError"
         /\ status \notin {201, 409} => exc = "ValueError"
    /\ faithful =>
         /\ ~Present(pre) => status = 201 /\ exc = "none"
         /\ Present(pre) => status = 409 /\ exc = "ConflictError"

\* The second create of a unique field a first create inserted.
C6_Witness ==
  Answered /\ op = "create" /\ faithful /\ pre = "created" /\ status = 409
    /\ exc = "ConflictError"

\* C7: create_or_update returns the record only on 200 or 201, and always
\* then when the body is a JSON object; the request body carries 'id' iff an
\* identifier was supplied; against a backend whose PUT inserts (201) a new
\* id and replaces (200) an existing one, a second create_or_update with the
\* same identifier succeeds with 200 and no ConflictError.
C7_UpsertIdempotent ==
  /\ pc \in {"send", "wait", "done"} /\ op = "create_or_update"
       /\ exc # "ValidationError" =>
       (Plain("id") \in data <=> idArg # NoId)
  /\ Answered /\ op = "create_or_update" =>
       /\ nreq = 1
       /\ exc = "none" => status \in {200, 201} /\ result = "record"
       /\ Parses(body) /\ status \in {200, 201} => exc = "none"
       /\ faithful =>
            /\ exc = "none"
            /\ Present(pre) => status = 200
            /\ ~Present(pre) => status = 201

\* The second create_or_update of an identifier a first one inserted.
C7_Witness ==
  Answered /\ op = "create_or_update" /\ faithful /\ pre = "upserted"
    /\ idArg # NoId /\ Plain("id") \in data /\ status = 200 /\ exc = "none"

SixOps == {"create", "create_or_update", "update", "retrieve", "list", "delete"}

\* C8 as stated: for every operation, a 409 response (with a JSON object as
\* body) is raised as ConflictError, and every status that is neither a
\* success status of the operation nor 409 as the generic failure.
C8_ConflictEverywhere ==
  ParsedAnswer /\ op \in SixOps =>
    /\ status = 409 => exc = "ConflictError"
    /\ status \notin SuccessOf(op) \cup {409} => exc = "ValueError"

\* C8 as amended: a 409 response with a JSON object as body is raised as
\* ConflictError by create and create_or_update only; update, retrieve, list
\* and delete raise it as the generic failure (ValueError), like every other
\* status that is not a success status of the operation.
C8_ConflictTyping ==
  Answered /\ op \in SixOps =>
    /\ exc = "ConflictError" =>
         status = 409 /\ op \in {"create", "create_or_update"}
    /\ status = 409 /\ op \in {"create", "create_or_update"} /\ Parses(body) =>
         exc = "ConflictError"
    /\ status = 409 /\ op \in {"update", "retrieve", "list", "delete"} =>
         exc \in ValueErrors
    /\ status \notin SuccessOf(op) \cup {409} => exc \in ValueErrors
    /\ Parses(body) /\ exc \in ValueErrors => exc = "ValueError"

\* A 409 answer to update, raised as the generic failure.
C8_Witness ==
  Answered /\ Parses(body) /\ status = 409 /\ op = "update"
    /\ exc = "ValueError" /\ msg = "flattened"

\* C9: retrieve returns a record only on 200; on every other status, 404
\* included, it raises the generic failure (ValueError) and returns nothing,
\* whereas delete returns normally on 404.
C9_RetrieveOnly200 ==
  /\ Answered /\ op = "retrieve" =>
       /\ nreq = 1
       /\ exc = "none" => status = 200 /\ result = "record"
       /\ status # 200 => exc \in ValueErrors /\ result = "none"
       /\ status # 200 /\ Parses(body) => exc = "ValueError"
       /\ status = 200 /\ Parses(body) => exc = "none"
  /\ Answered /\ op = "delete" /\ status = 404 => exc = "none"

\* A retrieve answered 404.
C9_Witness ==
  Answered /\ op = "retrieve" /\ status = 404 /\ Parses(body)
    /\ exc = "ValueError" /\ result = "none"

\* C10: a create / create_or_update / update / retrieve / list call answered
\* with a conflict or failure status raises the typed error (ConflictError or
\* the generic failure) whether or not the body parses: with the flattened
\* fields as message when it parses, with the raw response text when not.
C10_TypedErrorAlways ==
  Answered /\ op \in {"create", "create_or_update", "update", "retrieve", "list"}
    /\ status \notin SuccessOf(op) =>
      /\ exc \in {"ConflictError", "ValueError"}
      /\ msg = IF Parses(body) THEN "flattened" ELSE "raw_text"
\* C11: count issues one GET and returns the body's 'total' whenever the
\* body has one, whether or not it has 'data'; only without 'total' does it
\* return the length of 'data'.
C11_CountPrefersTotal ==
  Answered /\ op = "count" /\ Parses(body) =>
    /\ nreq = 1
    /\ HasTotal(body) => exc = "none" /\ result = "total"
    /\ ~HasTotal(body) /\ HasData(body) => exc = "none" /\ result = "len_data"

\* C12: no operation of any client, count included, returns a normal result
\* from a response whose status is not a success status of the operation:
\* such a response ends in an error raised to the caller.
C12_NoSwallowedError ==
  Answered /\ status \notin SuccessOf(op) => exc # "none" /\ result = "none"
\* C13: the session is opened only by the first request; with reuse on,
\* every later request is handed the session that is held, none is created
\* or closed; with reuse off, every request is handed a newly created
\* session no earlier request used, the held one having been closed first;
\* at no point does the client have more than one unclosed session.
C13_SessionLifecycle ==
  /\ unclosed <= 1
  /\ session = "none" => ~sessionUsed /\ unclosed = 0
  /\ session = "open" => sessionUsed /\ unclosed = 1
  /\ pc = "wait" =>
       /\ peak <= 1
       /\ ~held => created /\ fresh /\ ~closedOld
       /\ held /\ reuse => ~created /\ ~closedOld /\ ~fresh
       /\ held /\ ~reuse => created /\ closedOld /\ fresh

\* A second request with reuse off: the held session closed, a new one made.
C13_Witness ==
  pc = "wait" /\ ~reuse /\ held /\ created /\ closedOld /\ fresh /\ unclosed = 1

\* C14: with reuse off and an interval T > 0, every request goes through a
\* newly created adapter whose _last_request is unset, and no request
\* sleeps, however soon after the previous one it is sent.
C14_NoThrottleWithoutReuse ==
  ~reuse /\ interval > 0 =>
    /\ sleptFor = 0
    /\ pc = "wait" => created /\ fresh /\ prevEnd = NoTime /\ sendStart = now

\* A request sent less than T after the previous response, reuse off.
C14_Witness ==
  pc = "wait" /\ ~reuse /\ interval > 0 /\ 0 < elapsed /\ elapsed < interval
    /\ sleptFor = 0

\* C15: a send sleeps (in its one sleep) strictly less than the interval T,
\* and not at all when T = 0, when the adapter has no previous timestamp, or
\* when the time e elapsed since that timestamp is >= T or <= 0.
C15_BoundedThrottleDelay ==
  /\ sleptFor >= 0
  /\ sleptFor > 0 => sleptFor < interval
  /\ pc = "wait" =>
       LET e == (sendStart - sleptFor) - prevEnd
       IN /\ interval = 0 => sleptFor = 0
          /\ prevEnd = NoTime => sleptFor = 0
          /\ prevEnd # NoTime /\ e >= interval => sleptFor = 0
          /\ prevEnd # NoTime /\ e <= 0 => sleptFor = 0

\* A send that slept, after an elapsed time just short of the interval.
C15_Witness ==
  pc = "wait" /\ interval = 3 /\ prevEnd # NoTime
    /\ (sendStart - sleptFor) - prevEnd = 2 /\ sleptFor > 0
====
